---- MODULE Spec2Model ----
(***************************************************************************)
(* A model of nacl_interp.c: the stand-in dynamic linker that re-executes  *)
(* a NaCl executable through ${NACL_INTERP_LOADER}.                        *)
(*                                                                         *)
(* Memory is modelled as the C code sees it: every pointer is an integer   *)
(* address, NULL is 0, strings are NUL-terminated byte runs in Mem, the    *)
(* initial stack is an array of words.  C index i of the stack is element  *)
(* i+1 of the sequence `stack'.                                            *)
(***************************************************************************)
EXTENDS Integers, Sequences, FiniteSets, TLC

(* ------------------------------ bounds -------------------------------- *)
\* Largest argc of an initial stack.
MaxArgc == 2
\* Largest number of environment strings of an initial stack.
MaxEnv == 1
\* Largest number of auxiliary-vector entries before AT_NULL.
MaxAux == 3
\* Largest number of environment strings in the my_getenv inputs (GetenvSpec).
MaxGetenvEnv == 2
\* The integers -MaxSmallInt..MaxSmallInt are among the iov_int_string inputs.
MaxSmallInt == 40

(* ------------------------- program constants -------------------------- *)
NULL == 0
AT_NULL == 0
AT_PAGESZ == 6
AT_PLATFORM == 15
AT_SECURE == 23
AT_EXECFN == 31
ENOENT == 2
EACCES == 13
EFAULT == 14
\* The range of the C type int on every platform the program builds for.
INT_MAX == 2147483647
INT_MIN == -INT_MAX - 1
\* sizeof(valbuf1) in fail().
VALBUF_SIZE == 32
\* File descriptor and exit status used by fail().
STDERR_FD == 2
EXIT_STATUS == 2

(* ------------------------------ memory -------------------------------- *)
NUL == "NUL"
ENVAR == "NACL_INTERP_LOADER"
DIGITS == "0123456789"
MSG_PREFIX == "nacl_interp: "
MSG_SECURE == "refusing secure exec of "
MSG_NOENV == "environment variable NACL_INTERP_LOADER must be set to run a NaCl binary directly"
MSG_EXEC == "failed to execute "
DEFAULT_PLATFORM == "x86_64"

\* The string literals of the program, then the strings the kernel put
\* above the initial stack (arguments, environment, auxv strings).
StrTab ==
  << ENVAR, DIGITS, MSG_PREFIX, MSG_SECURE, MSG_NOENV, MSG_EXEC,
     DEFAULT_PLATFORM, "/proc/self/exe", ": ", "errno", "=", "\n",
     "prog", "a", "b", "c", "d",
     "NACL_INTERP_LOADER=/bin/loader", "PATH=/bin",
     "NACL_INTERP_LOADER=/alt=x", "NACL_INTERP_LOADER=", "NACL_INTERP_LOADER",
     "NACL_INTERP_LOADER_X=/x", "NACL_INTERP=/p",
     "i686", "/bin/nexe", "./nexe" >>

Chars(s) == [i \in 1..Len(s) |-> SubSeq(s, i, i)]

RECURSIVE Flat(_)
Flat(k) == IF k = 0 THEN << >> ELSE Flat(k - 1) \o Chars(StrTab[k]) \o << NUL >>

\* The bytes of memory holding the strings; address p is Mem[p].
Mem == Flat(Len(StrTab))

\* The address of the first byte of each string of StrTab, and of string s.
AddrTab == [k \in 1..Len(StrTab) |-> Len(Flat(k - 1)) + 1]

Addr(s) == AddrTab[CHOOSE j \in 1..Len(StrTab) : StrTab[j] = s]

\* static char buf[PATH_MAX + 1] of do_start lies after the strings.
BufAddr == Len(Mem) + 1

\* The results sys_readlink("/proc/self/exe") can give: a path, or failure.
ReadlinkTargets == { "/bin/nexe" }

VARIABLES
  boot,       \* the argv, envp and auxv the kernel built the stack from
  stack,      \* the initial stack block, an array of words
  pc,         \* position of the single thread of control
  argc,       \* do_start: int argc
  envp,       \* do_start: envp, as a C index into stack
  auxv,       \* do_start: auxv, as a C index into stack
  execfn,     \* do_start: const char *execfn
  platform,   \* do_start: const char *platform
  secure,     \* do_start: bool secure
  buf,        \* do_start: static char buf[], its bytes before the first NUL
  loader,     \* do_start: const char *loader
  new_argv,   \* do_start: new_argv[], a function on the slots written so far
  my_errno,   \* static int my_errno
  failargs,   \* the arguments of the pending call of fail()
  syscalls    \* the system calls issued so far, in order

vars == << boot, stack, pc, argc, envp, auxv, execfn, platform, secure, buf,
           loader, new_argv, my_errno, failargs, syscalls >>

\* Word i (C index) of the stack block stk.
W(stk, i) == stk[i + 1]

\* The byte at address p: a string byte, or a byte of the static buf
\* (zero-initialised, so NUL where nothing was written).
Load(b, p) ==
  IF p \in 1..Len(Mem) THEN Mem[p]
  ELSE IF p - BufAddr + 1 \in 1..Len(b) THEN SubSeq(b, p - BufAddr + 1, p - BufAddr + 1)
  ELSE NUL

\* while (*s++ != '\0') ++n;  the number of bytes before the first NUL.
my_strlen(b, s) ==
  CHOOSE n \in 0..(Len(Mem) + Len(b)) :
    Load(b, s + n) = NUL /\ \A m \in 0..(n - 1) : Load(b, s + m) # NUL

\* The string of StrTab that address p lies in.
StrIndex(p) ==
  CHOOSE k \in 1..Len(StrTab) : AddrTab[k] <= p /\ p <= AddrTab[k] + Len(StrTab[k])

\* The len bytes at address base, as text: a stretch, without a NUL, of
\* one string or of buf.
Bytes(b, base, len) ==
  IF len = 0 THEN ""
  ELSE IF base >= BufAddr THEN SubSeq(b, base - BufAddr + 1, base - BufAddr + len)
  ELSE LET k == StrIndex(base)
       IN  SubSeq(StrTab[k], base - AddrTab[k] + 1, base - AddrTab[k] + len)

\* The text of the C string at address p ("" for NULL, as fail() prints it).
CStr(b, p) == IF p = NULL THEN "" ELSE Bytes(b, p, my_strlen(b, p))

(* ------------------------- environ_match, my_getenv ------------------- *)
RECURSIVE environ_match_loop(_, _)
environ_match_loop(a, b) ==
  IF Load("", a) = Load("", b)
  THEN IF Load("", a) = NUL THEN NULL ELSE environ_match_loop(a + 1, b + 1)
  ELSE IF Load("", a) = NUL /\ Load("", b) = "=" THEN b + 1 ELSE NULL

\* A faulty variant: the byte after the name is not required to be '='.
environ_match_no_equals(name, envstring) ==
  LET n == my_strlen("", name)
  IN  IF my_strlen("", envstring) > n
         /\ Bytes("", envstring, n) = Bytes("", name, n)
      THEN envstring + n + 1 ELSE NULL

environ_match(name, envstring) == environ_match_loop(name, envstring)

RECURSIVE my_getenv(_, _, _)
my_getenv(name, stk, ep) ==
  IF W(stk, ep) = NULL THEN NULL
  ELSE LET match == environ_match(name, W(stk, ep))
       IN  IF match # NULL THEN match ELSE my_getenv(name, stk, ep + 1)

(* ----------------------------- iov_int_string ------------------------- *)
\* C's % and / by 10 (truncation toward zero), for any int v.
CMod10(v) == LET m == v % 10 IN IF v < 0 /\ m # 0 THEN m - 10 ELSE m

CDiv10(v) == LET m == v % 10 IN IF v < 0 /\ m # 0 THEN (v \div 10) + 1 ELSE v \div 10

\* value = -value.  -INT_MIN is not an int: the signed overflow is undefined
\* behaviour, and a build either wraps (the result is INT_MIN again) or
\* traps (-ftrapv).
Negate(v) ==
  IF v = INT_MIN
  THEN { [value |-> INT_MIN, overflow |-> TRUE, trap |-> FALSE],
         [value |-> INT_MIN, overflow |-> TRUE, trap |-> TRUE] }
  ELSE { [value |-> -v, overflow |-> FALSE, trap |-> FALSE] }

\* What a read of "0123456789"[i] with i outside 0..9 can give: some byte
\* of whatever lies next to the literal.
GarbageBytes == { "?", "8" }

\* "0123456789"[i]
Digit(i) == IF i \in 0..9 THEN { Mem[Addr(DIGITS) + i] } ELSE GarbageBytes

\* The do ... while loop: its final states, from state st.
RECURSIVE digit_loop(_)
digit_loop(st) ==
  LET i == CMod10(st.value)
      q == CDiv10(st.value)
      after == { [value |-> q, p |-> st.p - 1, text |-> c \o st.text,
                  badindex |-> st.badindex \/ i \notin 0..9,
                  inside |-> st.inside /\ st.p - 1 >= 0] : c \in Digit(i) }
  IN  IF q # 0 THEN UNION { digit_loop(n) : n \in after } ELSE after

\* The outcomes of iov_int_string(value, iov, buf, bufsz): p is the index in
\* buf that iov_base points at, text the bytes buf[p..bufsz-1] (iov_len of
\* them), overflow/badindex/inside what happened on the way, trap a build
\* that aborted at the overflow.
iov_int_string(value, bufsz) ==
  LET negative == value < 0
      starts == IF negative THEN Negate(value)
                ELSE { [value |-> value, overflow |-> FALSE, trap |-> FALSE] }
      run(s) ==
        IF s.trap
        THEN { [trap |-> TRUE, overflow |-> TRUE, badindex |-> FALSE,
                inside |-> TRUE, p |-> bufsz, text |-> ""] }
        ELSE { [trap |-> FALSE, overflow |-> s.overflow, badindex |-> d.badindex,
                inside |-> d.inside /\ (negative => d.p - 1 >= 0),
                p |-> IF negative THEN d.p - 1 ELSE d.p,
                text |-> IF negative THEN "-" \o d.text ELSE d.text]
               : d \in digit_loop([value |-> s.value, p |-> bufsz, text |-> "",
                                   badindex |-> FALSE, inside |-> TRUE]) }
  IN  UNION { run(s) : s \in starts }

\* iov[6] as fail() initialises it: { NULL, 0 }.
NoNumber ==
  [trap |-> FALSE, overflow |-> FALSE, badindex |-> FALSE, inside |-> TRUE,
   p |-> NULL, text |-> ""]

(* -------------------------------- fail -------------------------------- *)
\* The call fail(message, filename, item1, value1).
FailCall(message, filename, item1, value1) ==
  [message |-> message, filename |-> filename, item1 |-> item1, value1 |-> value1]

NoFailCall == FailCall(NULL, NULL, NULL, 0)

\* The bytes of the eight iovec entries of fail(), num being iov[6].
FailIov(b, fa, num) ==
  << MSG_PREFIX,
     CStr(b, fa.message),
     CStr(b, fa.filename),
     IF fa.item1 # NULL THEN ": " ELSE "",
     CStr(b, fa.item1),
     IF fa.item1 # NULL THEN "=" ELSE "",
     num.text,
     "\n" >>

\* fail() up to and including sys_writev(2, iov, niov).  The result of
\* sys_writev is ignored by the code.
Fail ==
  /\ pc = "fail"
  /\ \E num \in (IF failargs.item1 # NULL
                 THEN iov_int_string(failargs.value1, VALBUF_SIZE)
                 ELSE { NoNumber }) :
       IF num.trap
       THEN /\ pc' = "crashed"
            /\ syscalls' = syscalls
       ELSE /\ pc' = "exit"
            /\ syscalls' = Append(syscalls,
                 [nr |-> "writev", fd |-> STDERR_FD,
                  iov |-> FailIov(buf, failargs, num), num |-> num])
  /\ UNCHANGED << boot, stack, argc, envp, auxv, execfn, platform, secure, buf,
                  loader, new_argv, my_errno, failargs >>

\* A faulty variant: the process exits with status 0.
ExitGroupZero ==
  /\ pc = "exit"
  /\ syscalls' = Append(syscalls, [nr |-> "exit_group", status |-> 0])
  /\ pc' = "exited"
  /\ UNCHANGED << boot, stack, argc, envp, auxv, execfn, platform, secure, buf,
                  loader, new_argv, my_errno, failargs >>

\* sys_exit_group(2), which does not return.
ExitGroup ==
  /\ pc = "exit"
  /\ syscalls' = Append(syscalls, [nr |-> "exit_group", status |-> EXIT_STATUS])
  /\ pc' = "exited"
  /\ UNCHANGED << boot, stack, argc, envp, auxv, execfn, platform, secure, buf,
                  loader, new_argv, my_errno, failargs >>

(* ------------------------------ do_start ------------------------------ *)
\* while (*ep != NULL) ++ep;  from C index i of the stack.
RECURSIVE scan_null(_, _)
scan_null(stk, i) == IF W(stk, i) = NULL THEN i ELSE scan_null(stk, i + 1)

\* The first lines of do_start: argc, argv = &stack[1], envp = &argv[argc + 1],
\* auxv = one past the NULL that ends envp.  (The scan for AT_NULL that
\* follows changes nothing.)
FindAuxv ==
  /\ pc = "start"
  /\ argc' = W(stack, 0)
  /\ envp' = 1 + (argc' + 1)
  /\ auxv' = scan_null(stack, envp') + 1
  /\ pc' = "scan"
  /\ UNCHANGED << boot, stack, execfn, platform, secure, buf, loader, new_argv,
                  my_errno, failargs, syscalls >>

\* One pass of the switch over the auxv entry at C index av.
aux_case(stk, av, acc) ==
  LET type == W(stk, av)
      val == W(stk, av + 1)
  IN  IF type = AT_EXECFN THEN [acc EXCEPT !.execfn = val]
      ELSE IF type = AT_PLATFORM THEN [acc EXCEPT !.platform = val]
      ELSE IF type = AT_SECURE THEN [acc EXCEPT !.secure = (val # 0)]
      ELSE acc

RECURSIVE aux_loop(_, _, _)
aux_loop(stk, av, acc) ==
  IF W(stk, av) = AT_NULL THEN acc ELSE aux_loop(stk, av + 2, aux_case(stk, av, acc))

\* Faulty variants of the scan: the first AT_SECURE entry wins; secure
\* starts false.
RECURSIVE aux_loop_first_secure(_, _, _, _)
aux_loop_first_secure(stk, av, acc, seen) ==
  IF W(stk, av) = AT_NULL THEN acc
  ELSE IF W(stk, av) = AT_SECURE /\ seen THEN aux_loop_first_secure(stk, av + 2, acc, seen)
  ELSE aux_loop_first_secure(stk, av + 2, aux_case(stk, av, acc),
                             seen \/ W(stk, av) = AT_SECURE)

scan_auxv_secure_false(stk, av) ==
  aux_loop(stk, av, [execfn |-> NULL, platform |-> NULL, secure |-> FALSE])

scan_auxv_first_secure(stk, av) ==
  aux_loop_first_secure(stk, av, [execfn |-> NULL, platform |-> NULL, secure |-> TRUE], FALSE)

\* execfn = NULL, platform = NULL, secure = true, then the for loop.
scan_auxv(stk, av) ==
  aux_loop(stk, av, [execfn |-> NULL, platform |-> NULL, secure |-> TRUE])

ScanAuxv ==
  /\ pc = "scan"
  /\ LET r == scan_auxv(stack, auxv)
     IN  /\ execfn' = r.execfn
         /\ platform' = r.platform
         /\ secure' = r.secure
  /\ pc' = "resolve"
  /\ UNCHANGED << boot, stack, argc, envp, auxv, buf, loader, new_argv,
                  my_errno, failargs, syscalls >>

\* sys_readlink("/proc/self/exe", buf, sizeof buf - 1) succeeded with n bytes:
\* buf[n] = '\0' (which buf[n], static storage written once, held already);
\* execfn = buf.
ReadlinkOk ==
  \E t \in ReadlinkTargets :
    /\ buf' = t
    /\ execfn' = BufAddr
    /\ syscalls' = Append(syscalls,
         [nr |-> "readlink", path |-> Addr("/proc/self/exe"), ret |-> Len(t)])
    /\ UNCHANGED my_errno

\* sys_readlink failed (the wrapper stores errno in my_errno): execfn = argv[0].
ReadlinkFails ==
  /\ execfn' = W(stack, 1)
  /\ my_errno' = ENOENT
  /\ syscalls' = Append(syscalls,
       [nr |-> "readlink", path |-> Addr("/proc/self/exe"), ret |-> -1])
  /\ UNCHANGED buf

\* A faulty variant: /proc/self/exe is preferred to the AT_EXECFN value.
ResolveExecfnReadlinkFirst ==
  /\ pc = "resolve"
  /\ \/ ReadlinkOk
     \/ IF execfn = NULL THEN ReadlinkFails
        ELSE /\ syscalls' = Append(syscalls,
                  [nr |-> "readlink", path |-> Addr("/proc/self/exe"), ret |-> -1])
             /\ UNCHANGED << execfn, buf, my_errno >>
  /\ pc' = "policy"
  /\ UNCHANGED << boot, stack, argc, envp, auxv, platform, secure, loader,
                  new_argv, failargs >>

\* if (execfn == NULL) { ... }
ResolveExecfn ==
  /\ pc = "resolve"
  /\ \/ execfn # NULL /\ UNCHANGED << execfn, buf, my_errno, syscalls >>
     \/ execfn = NULL /\ ReadlinkOk
     \/ execfn = NULL /\ ReadlinkFails
  /\ pc' = "policy"
  /\ UNCHANGED << boot, stack, argc, envp, auxv, platform, secure, loader,
                  new_argv, failargs >>

\* if (secure) fail("refusing secure exec of ", execfn, NULL, 0);
CheckSecure ==
  /\ pc = "policy"
  /\ IF secure
     THEN /\ failargs' = FailCall(Addr(MSG_SECURE), execfn, NULL, 0)
          /\ pc' = "fail"
     ELSE /\ pc' = "plan"
          /\ UNCHANGED failargs
  /\ UNCHANGED << boot, stack, argc, envp, auxv, execfn, platform, secure, buf,
                  loader, new_argv, my_errno, syscalls >>

\* A variant: every argument of the original argv is kept, argv[0] first,
\* as the comment at the head of the file describes ARGS.
build_argv_keeps_argv0(ld, pf, ex, n, stk) ==
  [j \in 0..(n + 3) |->
     IF j = 0 THEN ld ELSE IF j = 1 THEN pf ELSE IF j = 2 THEN ex
     ELSE W(stk, 1 + (j - 3))]

\* new_argv[0..2], then for (i = 1; i <= argc; ++i) new_argv[2 + i] = argv[i].
\* The array has argc + 4 slots; the result is defined on the slots written.
build_argv(ld, pf, ex, n, stk) ==
  [j \in {0, 1, 2} \cup { 2 + i : i \in 1..n } |->
     IF j = 0 THEN ld ELSE IF j = 1 THEN pf ELSE IF j = 2 THEN ex
     ELSE W(stk, 1 + (j - 2))]

\* A faulty variant: the missing loader is not noticed.
PlanRedirectNoCheck ==
  /\ pc = "plan"
  /\ platform' = IF platform = NULL THEN Addr(DEFAULT_PLATFORM) ELSE platform
  /\ loader' = my_getenv(Addr(ENVAR), stack, envp)
  /\ new_argv' = build_argv(loader', platform', execfn, argc, stack)
  /\ pc' = "execve"
  /\ UNCHANGED << boot, stack, argc, envp, auxv, execfn, secure, buf, my_errno,
                  failargs, syscalls >>

\* The default platform, my_getenv(ENVAR, envp), the check of its result and
\* the construction of new_argv.
PlanRedirect ==
  /\ pc = "plan"
  /\ platform' = IF platform = NULL THEN Addr(DEFAULT_PLATFORM) ELSE platform
  /\ loader' = my_getenv(Addr(ENVAR), stack, envp)
  /\ IF loader' = NULL
     THEN /\ failargs' = FailCall(Addr(MSG_NOENV), NULL, NULL, 0)
          /\ pc' = "fail"
          /\ UNCHANGED new_argv
     ELSE /\ new_argv' = build_argv(loader', platform', execfn, argc, stack)
          /\ pc' = "execve"
          /\ UNCHANGED failargs
  /\ UNCHANGED << boot, stack, argc, envp, auxv, execfn, secure, buf, my_errno,
                  syscalls >>

\* The array the kernel is handed ends with a NULL it can reach through
\* slots the program wrote.
Terminated(nv) ==
  \E t \in DOMAIN nv : nv[t] = NULL /\ \A j \in 0..t : j \in DOMAIN nv

\* What sys_execve can return: 0 stands for success (no return at all).
\* Walking into a slot that was never written reads an indeterminate word:
\* the call may still succeed or fail as usual, or fault.
ExecveResults(nv) ==
  {0, ENOENT, EACCES} \cup (IF Terminated(nv) THEN {} ELSE {EFAULT})

\* sys_execve(loader, new_argv, envp); on return,
\* fail("failed to execute ", loader, "errno", my_errno).
Execve ==
  /\ pc = "execve"
  /\ \E r \in ExecveResults(new_argv) :
       /\ syscalls' = Append(syscalls,
            [nr |-> "execve", path |-> loader, argv |-> new_argv,
             envp |-> envp, ret |-> r])
       /\ IF r = 0
          THEN /\ pc' = "execd"
               /\ UNCHANGED << my_errno, failargs >>
          ELSE /\ my_errno' = r
               /\ failargs' = FailCall(Addr(MSG_EXEC), loader, Addr("errno"), r)
               /\ pc' = "fail"
  /\ UNCHANGED << boot, stack, argc, envp, auxv, execfn, platform, secure, buf,
                  loader, new_argv >>

(* ----------------------------- initial stack -------------------------- *)
SeqsUpTo(S, n) == UNION { [1..k -> S] : k \in 0..n }

RECURSIVE FlatPairs(_)
FlatPairs(x) == IF x = << >> THEN << >> ELSE Head(x) \o FlatPairs(Tail(x))

\* The block the kernel hands to a new process: argc, the argv pointers,
\* NULL, the envp pointers, NULL, the auxv pairs, AT_NULL.
MkStack(a, e, x) ==
  << Len(a) >> \o a \o << NULL >> \o e \o << NULL >> \o FlatPairs(x) \o << AT_NULL, 0 >>

\* Argument strings; argv holds the first argc of them.
ArgPool == << Addr("prog"), Addr("a"), Addr("b"), Addr("c"), Addr("d") >>

Argvs(n) == { SubSeq(ArgPool, 1, k) : k \in 0..n }

EnvPool == { Addr("NACL_INTERP_LOADER=/bin/loader"), Addr("PATH=/bin") }

GetenvEnvPool ==
  { Addr("NACL_INTERP_LOADER=/bin/loader"), Addr("NACL_INTERP_LOADER=/alt=x"),
    Addr("NACL_INTERP_LOADER="), Addr("NACL_INTERP_LOADER"),
    Addr("NACL_INTERP_LOADER_X=/x"), Addr("NACL_INTERP=/p"), Addr("PATH=/bin") }

\* Auxv entries: the values of AT_EXECFN and AT_PLATFORM are addresses of
\* strings, as the kernel passes them; AT_PAGESZ is a type the switch has no
\* case for.
AuxPool ==
  { << AT_EXECFN, Addr("/bin/nexe") >>, << AT_EXECFN, Addr("./nexe") >>,
    << AT_PLATFORM, Addr("i686") >>,
    << AT_SECURE, 0 >>, << AT_SECURE, 1 >>,
    << AT_PAGESZ, 4096 >> }

\* The state at the call of do_start(stack), the stack built from an argv
\* of argvs, an envp of envps and an auxv of auxvs.
Boot(argvs, envps, auxvs) ==
  /\ boot \in [argv : argvs, envp : envps, auxv : auxvs]
  /\ stack = MkStack(boot.argv, boot.envp, boot.auxv)
  /\ pc = "start"
  /\ argc = 0
  /\ envp = 0
  /\ auxv = 0
  /\ execfn = NULL
  /\ platform = NULL
  /\ secure = TRUE
  /\ buf = ""
  /\ loader = NULL
  /\ new_argv = << >>
  /\ my_errno = 0
  /\ failargs = NoFailCall
  /\ syscalls = << >>

Init == Boot(Argvs(MaxArgc), SeqsUpTo(EnvPool, MaxEnv), SeqsUpTo(AuxPool, MaxAux))

Next ==
  \/ FindAuxv
  \/ ScanAuxv
  \/ ResolveExecfn
  \/ CheckSecure
  \/ PlanRedirect
  \/ Execve
  \/ Fail
  \/ ExitGroup

Spec == Init /\ [][Next]_vars

\* The program is one thread that runs until the process image is replaced
\* or the process exits: a step that can be taken is taken.
FairSpec == Init /\ [][Next]_vars /\ WF_vars(Next)

(* ------------------- specifications of the pure functions ------------- *)
\* my_getenv on a wider choice of environments: do_start is run on stacks
\* that get past the secure check, so that every run calls my_getenv.
GetenvInit ==
  Boot({ SubSeq(ArgPool, 1, 2) },
       SeqsUpTo(GetenvEnvPool, MaxGetenvEnv),
       { << << AT_SECURE, 0 >> >>,
         << << AT_EXECFN, Addr("./nexe") >>, << AT_SECURE, 0 >> >> })

GetenvSpec == GetenvInit /\ [][Next]_vars

\* The values iov_int_string is given.
IntInputs ==
  (-MaxSmallInt..MaxSmallInt)
    \cup { 42, 99, 100, -100, 4095, 65535, -65536, 1000000000, -1000000000,
           INT_MAX, -INT_MAX, INT_MIN, INT_MIN + 1 }

\* iov_int_string on any int: the state at a call
\* fail("failed to execute ", loader, "errno", value1), value1 any of IntInputs.
IntInit ==
  /\ boot = [argv |-> SubSeq(ArgPool, 1, 1),
             envp |-> << Addr("NACL_INTERP_LOADER=/bin/loader") >>,
             auxv |-> << << AT_SECURE, 0 >> >>]
  /\ stack = MkStack(boot.argv, boot.envp, boot.auxv)
  /\ pc = "fail"
  /\ argc = 1
  /\ envp = 3
  /\ auxv = 5
  /\ execfn = BufAddr
  /\ platform = Addr(DEFAULT_PLATFORM)
  /\ secure = FALSE
  /\ buf = "/bin/nexe"
  /\ loader = Addr("NACL_INTERP_LOADER=/bin/loader") + Len(ENVAR) + 1
  /\ new_argv = build_argv(loader, platform, execfn, argc, stack)
  /\ my_errno \in IntInputs
  /\ failargs = FailCall(Addr(MSG_EXEC), loader, Addr("errno"), my_errno)
  /\ syscalls = << [nr |-> "readlink", path |-> Addr("/proc/self/exe"), ret |-> 9],
                   [nr |-> "execve", path |-> loader, argv |-> new_argv,
                    envp |-> envp, ret |-> my_errno] >>

IntNext == Fail \/ ExitGroup

IntSpec == IntInit /\ [][IntNext]_vars

(* ======================= what the claims speak of ===================== *)
\* The positions in the log of the system calls named nr.
Called(nr) == { k \in 1..Len(syscalls) : syscalls[k].nr = nr }

\* The auxv the kernel passed has an entry of type t; the value of its last one.
HasAux(t) == \E i \in 1..Len(boot.auxv) : boot.auxv[i][1] = t

LastAux(t) ==
  LET last == CHOOSE i \in 1..Len(boot.auxv) :
                /\ boot.auxv[i][1] = t
                /\ \A j \in (i + 1)..Len(boot.auxv) : boot.auxv[j][1] # t
  IN  boot.auxv[last][2]

\* The text of the string at address p (the static buf not involved).
Text(p) == CStr("", p)

\* The index of the first '=' of text s, 0 when it has none.
EqPos(s) ==
  IF \E i \in 1..Len(s) : SubSeq(s, i, i) = "="
  THEN CHOOSE i \in 1..Len(s) :
         SubSeq(s, i, i) = "=" /\ \A j \in 1..(i - 1) : SubSeq(s, j, j) # "="
  ELSE 0

\* The environment string at address p defines the variable ENVAR.
Defines(p) ==
  EqPos(Text(p)) > 0 /\ SubSeq(Text(p), 1, EqPos(Text(p)) - 1) = ENVAR

NoLoaderEnv == \A i \in 1..Len(boot.envp) : ~Defines(boot.envp[i])

\* The address after the first '=' of the first string of boot.envp that
\* defines ENVAR, NULL when there is none.
ExpectedLoader ==
  IF NoLoaderEnv THEN NULL
  ELSE LET i == CHOOSE i \in 1..Len(boot.envp) :
                  Defines(boot.envp[i]) /\ \A j \in 1..(i - 1) : ~Defines(boot.envp[j])
       IN  boot.envp[i] + EqPos(Text(boot.envp[i]))

\* The line a writev wrote.
RECURSIVE Concat(_)
Concat(q) == IF q = << >> THEN "" ELSE Head(q) \o Concat(Tail(q))

Line(call) == Concat(call.iov)

\* do_start never gets to sys_execve.
NoExecve == Called("execve") = {} /\ pc \notin { "plan", "execve", "execd" }

\* Whatever failure is under way or done is the one with message msg,
\* and the line written is `written'.
FailsWith(msg, written) ==
  /\ pc \in { "fail", "exit", "exited" } => failargs.message = Addr(msg)
  /\ \A k \in Called("writev") : Line(syscalls[k]) = written

Terminal == pc \in { "execd", "exited" }

\* The decimal rendering of an int, computed without leaving the int range.
DigitChar(d) == SubSeq("0123456789", d + 1, d + 1)

RECURSIVE DecimalNat(_)
DecimalNat(n) ==
  IF n < 10 THEN DigitChar(n) ELSE DecimalNat(n \div 10) \o DigitChar(n % 10)

Decimal(v) ==
  IF v >= 0 THEN DecimalNat(v)
  ELSE LET m == -(v + 1)
       IN  "-" \o (IF m % 10 = 9 THEN DecimalNat((m \div 10) + 1) \o "0"
                   ELSE (IF m \div 10 = 0 THEN "" ELSE DecimalNat(m \div 10))
                          \o DigitChar((m % 10) + 1))

(* =============================== claims ============================== *)

C2_AllArgsKept ==
  \A k \in Called("execve") :
    \A j \in 0..(Len(boot.argv) - 1) :
      /\ (3 + j) \in DOMAIN syscalls[k].argv
      /\ syscalls[k].argv[3 + j] = boot.argv[j + 1]

\* C3 as stated: an AT_SECURE entry with a nonzero value anywhere in auxv
\* means no sys_execve and the 'refusing secure exec of' failure.
C3_AnySecureNonzeroRefuses ==
  (\E i \in 1..Len(boot.auxv) :
     boot.auxv[i][1] = AT_SECURE /\ boot.auxv[i][2] # 0)
  => (pc # "start" /\ pc # "scan" =>
        /\ NoExecve
        /\ FailsWith(MSG_SECURE, MSG_PREFIX \o MSG_SECURE \o CStr(buf, execfn) \o "\n"))

\* C3 amended: when the last AT_SECURE entry of auxv has a nonzero value,
\* whatever entries precede or follow it, do_start never calls sys_execve and
\* its failure is the 'refusing secure exec of' one.
C3_LastSecureNonzeroRefuses ==
  (HasAux(AT_SECURE) /\ LastAux(AT_SECURE) # 0)
  => (pc # "start" /\ pc # "scan" =>
        /\ secure
        /\ NoExecve
        /\ FailsWith(MSG_SECURE, MSG_PREFIX \o MSG_SECURE \o CStr(buf, execfn) \o "\n"))

\* C3 witness: the process has exited on an auxv whose AT_SECURE=1 entry
\* follows an AT_SECURE=0 entry, with the loader variable set.
C3_Witness ==
  /\ pc = "exited"
  /\ ~NoLoaderEnv
  /\ \E i, j \in 1..Len(boot.auxv) :
       i < j /\ boot.auxv[i] = << AT_SECURE, 0 >> /\ boot.auxv[j] = << AT_SECURE, 1 >>
  /\ LastAux(AT_SECURE) # 0

\* C4: when auxv has no AT_SECURE entry, the secure flag is true, do_start
\* never calls sys_execve and its failure is the 'refusing secure exec of'
\* one, whatever argv, envp and the rest of auxv are.
C4_NoSecureEntryRefuses ==
  ~HasAux(AT_SECURE)
  => (pc # "start" /\ pc # "scan" =>
        /\ secure
        /\ NoExecve
        /\ FailsWith(MSG_SECURE, MSG_PREFIX \o MSG_SECURE \o CStr(buf, execfn) \o "\n"))

\* C4 witness: the process has exited on a non-empty auxv without AT_SECURE
\* while the environment sets the loader.
C4_Witness ==
  /\ pc = "exited"
  /\ ~HasAux(AT_SECURE)
  /\ boot.auxv # << >>
  /\ ~NoLoaderEnv

\* C5 as stated: when no envp entry defines NACL_INTERP_LOADER, the failure
\* is the MissingLoaderEnv one, whatever auxv holds.
C5_NoLoaderAlwaysMissingEnv ==
  NoLoaderEnv
  => /\ NoExecve
     /\ FailsWith(MSG_NOENV, MSG_PREFIX \o MSG_NOENV \o "\n")

\* C5 amended: when no envp entry defines NACL_INTERP_LOADER, do_start never
\* calls sys_execve; its failure is the MissingLoaderEnv one when the last
\* AT_SECURE entry of auxv is zero (whatever AT_EXECFN and AT_PLATFORM entries
\* there are), and the 'refusing secure exec of' one otherwise.
C5_NoLoaderNeverExecs ==
  NoLoaderEnv
  => /\ Called("execve") = {}
     /\ pc \notin { "execve", "execd" }
     /\ IF HasAux(AT_SECURE) /\ LastAux(AT_SECURE) = 0
        THEN FailsWith(MSG_NOENV, MSG_PREFIX \o MSG_NOENV \o "\n")
        ELSE FailsWith(MSG_SECURE, MSG_PREFIX \o MSG_SECURE \o CStr(buf, execfn) \o "\n")

\* C5 witness: the process has exited with the MissingLoaderEnv line on a
\* stack with a non-empty environment and AT_EXECFN, AT_PLATFORM entries.
C5_Witness ==
  /\ pc = "exited"
  /\ NoLoaderEnv
  /\ boot.envp # << >>
  /\ HasAux(AT_EXECFN)
  /\ HasAux(AT_PLATFORM)
  /\ \E k \in Called("writev") : Line(syscalls[k]) = MSG_PREFIX \o MSG_NOENV \o "\n"

\* C6: for every int value, iov_int_string with the 32-byte buffer yields
\* the decimal rendering of the value, with no overflow of int on the way,
\* every index into the digit table in 0..9 and every byte inside the buffer.
C6_RendersDecimal ==
  /\ pc # "crashed"
  /\ \A k \in Called("writev") :
       failargs.item1 # NULL =>
         LET num == syscalls[k].num
         IN  /\ num.text = Decimal(failargs.value1)
             /\ ~num.overflow
             /\ ~num.badindex
             /\ num.inside
             /\ num.p \in 0..(VALBUF_SIZE - 1)
             /\ Len(num.text) = VALBUF_SIZE - num.p

\* The state part of C7: sys_execve is called at most once; a diagnostic is
\* one sys_writev to descriptor 2, after any sys_execve (which failed) and
\* directly followed by sys_exit_group(2) and nothing else; the two ends are
\* a successful sys_execve and the exit with status 2, never status 0.
C7_Safety ==
  /\ Cardinality(Called("execve")) <= 1
  /\ Cardinality(Called("writev")) <= 1
  /\ Cardinality(Called("exit_group")) <= 1
  /\ \A k \in Called("writev") :
       /\ syscalls[k].fd = STDERR_FD
       /\ \A j \in Called("execve") : j < k /\ syscalls[j].ret # 0
       /\ k = Len(syscalls) \/ (k + 1 = Len(syscalls) /\ syscalls[k + 1].nr = "exit_group")
  /\ \A k \in Called("exit_group") :
       /\ syscalls[k].status = 2
       /\ k = Len(syscalls)
       /\ k > 1 /\ syscalls[k - 1].nr = "writev"
  /\ \A k \in Called("execve") : syscalls[k].ret = 0 => k = Len(syscalls)
  /\ pc = "exited" <=> Called("exit_group") # {}
  /\ pc = "execd" <=> \E k \in Called("execve") : syscalls[k].ret = 0
  /\ pc # "crashed"

\* C7, the whole claim: C7_Safety in every state, no step out of a
\* terminal outcome, and a terminal outcome is eventually reached.
C7_OneTerminalOutcome ==
  /\ [] C7_Safety
  /\ [][~Terminal]_vars
  /\ <> Terminal

\* C7 witness: the process has exited after a sys_execve that failed.
C7_Witness ==
  /\ pc = "exited"
  /\ \E k \in Called("execve") : syscalls[k].ret = EACCES
  /\ Len(syscalls) >= 3

\* C8: execfn is the value of the last AT_EXECFN entry when auxv has one,
\* else what readlink("/proc/self/exe") gave when it succeeded, else argv[0];
\* readlink is called only when auxv has no AT_EXECFN, and at most once.
C8_ExecfnOrder ==
  /\ Cardinality(Called("readlink")) <= 1
  /\ Called("readlink") # {} => ~HasAux(AT_EXECFN)
  /\ pc \notin { "start", "scan", "resolve" } =>
       IF HasAux(AT_EXECFN)
       THEN execfn = LastAux(AT_EXECFN) /\ Called("readlink") = {}
       ELSE /\ Called("readlink") = {1}
            /\ syscalls[1].path = Addr("/proc/self/exe")
            /\ IF syscalls[1].ret >= 0
               THEN /\ execfn = BufAddr
                    /\ CStr(buf, execfn) \in ReadlinkTargets
                    /\ Len(CStr(buf, execfn)) = syscalls[1].ret
               ELSE execfn = W(stack, 1)

\* C8 witness: auxv has two AT_EXECFN entries with different values and the
\* secure check has been reached.
C8_Witness ==
  /\ pc = "policy"
  /\ \E i, j \in 1..Len(boot.auxv) :
       /\ i < j
       /\ boot.auxv[i][1] = AT_EXECFN
       /\ boot.auxv[j][1] = AT_EXECFN
       /\ boot.auxv[i][2] # boot.auxv[j][2]
       /\ execfn = boot.auxv[j][2]
       /\ \A m \in (j + 1)..Len(boot.auxv) : boot.auxv[m][1] # AT_EXECFN

\* C9: whenever do_start calls sys_execve, for any argc >= 0, new_argv is
\* NULL-terminated: every slot up to the terminator was written, and the
\* slot after the last argument pointer holds NULL.
C9_NullTerminated ==
  \A k \in Called("execve") :
    LET nv == syscalls[k].argv
        n == Len(boot.argv)
        t == IF n >= 1 THEN n + 2 ELSE 3
    IN  /\ \A j \in 0..t : j \in DOMAIN nv
        /\ nv[t] = NULL

\* C10: my_getenv("NACL_INTERP_LOADER", envp) is the text after the first '='
\* of the first envp entry whose name is exactly NACL_INTERP_LOADER, NULL when
\* there is none: a name that is a proper prefix, a longer name and the bare
\* name without '=' do not match; "NACL_INTERP_LOADER=" matches, value empty.
C10_Getenv ==
  (pc \notin { "start", "scan", "resolve", "policy", "plan" } /\ ~secure)
  => /\ loader = ExpectedLoader
     /\ loader = NULL <=> NoLoaderEnv
     /\ loader # NULL =>
          \E i \in 1..Len(boot.envp) :
            /\ Text(boot.envp[i]) = ENVAR \o "=" \o Text(loader)
            /\ \A j \in 1..(i - 1) :
                 \/ Len(Text(boot.envp[j])) <= Len(ENVAR)
                 \/ SubSeq(Text(boot.envp[j]), 1, Len(ENVAR) + 1) # ENVAR \o "="

\* C10 witness: the loader was found in the second entry, after an entry
\* that does not define it, and its value is empty.
C10_Witness ==
  /\ pc = "execve"
  /\ Len(boot.envp) = 2
  /\ boot.envp[1] = Addr("NACL_INTERP_LOADER_X=/x")
  /\ boot.envp[2] = Addr("NACL_INTERP_LOADER=")
  /\ loader = boot.envp[2] + Len(ENVAR) + 1
  /\ Text(loader) = ""

====
